---- MODULE Spec2Model ----
(***************************************************************************)
(* Model of pytube/contrib/channel.py: the Channel page-body caches, the   *)
(* videos/shorts entry points and the JSON shape classifier                *)
(* Channel._extract_videos.                                                *)
(*                                                                         *)
(* JSON values are nodes [t |-> kind, v |-> value]:                        *)
(*   "obj"  v is a function from key strings to nodes                      *)
(*   "arr"  v is a sequence of nodes                                       *)
(*   "str"  v is a sequence of one-character strings                       *)
(*   "num"  v is an integer                                                *)
(*   "null" v is <<>>            (Python None)                             *)
(* A raised Python exception is the node [t |-> "exc", v |-> its name].    *)
(***************************************************************************)
EXTENDS Integers, Sequences, FiniteSets, TLC

\* ------------------------------------------------------------------ bounds
\* longest video list a payload carries
MaxLen == 3
\* most request.get calls made in one run
MaxFetch == 3
\* most sequences handed out by the videos and shorts properties
MaxSeqs == 2

\* ------------------------------------------------------- program constants
\* entityId[-11:]
IdLen == 11

\* ------------------------------------------------------------- JSON values
Obj(f) == [t |-> "obj", v |-> f]
Arr(s) == [t |-> "arr", v |-> s]
Str(s) == [t |-> "str", v |-> s]
Num(n) == [t |-> "num", v |-> n]
Null == [t |-> "null", v |-> <<>>]
Exc(name) == [t |-> "exc", v |-> name]
EmptyObj == Obj([k \in {} |-> Null])

IsExc(n) == n.t = "exc"
NodeEq(a, b) == a.t = b.t /\ a.v = b.v

\* a subscript: a string key (x["k"]) or an integer index (x[i])
K(s) == [isIdx |-> FALSE, s |-> s, i |-> 0]
I(i) == [isIdx |-> TRUE, s |-> "", i |-> i]

\* Python's x[k] on a value decoded by json.loads
Subscript(n, k) ==
  CASE n.t = "exc" -> n
    [] n.t = "obj" ->
         IF ~k.isIdx /\ k.s \in DOMAIN n.v THEN n.v[k.s] ELSE Exc("KeyError")
    [] n.t \in {"arr", "str"} ->
         IF ~k.isIdx THEN Exc("TypeError")
         ELSE LET len == Len(n.v)
                  pos == IF k.i < 0 THEN len + k.i + 1 ELSE k.i + 1
              IN  IF pos >= 1 /\ pos <= len
                  THEN IF n.t = "arr" THEN n.v[pos] ELSE Str(<<n.v[pos]>>)
                  ELSE Exc("IndexError")
    [] OTHER -> Exc("TypeError")

\* x[k1][k2]...[kn], the first exception ending the chain
RECURSIVE Path(_, _)
Path(n, ks) ==
  IF Len(ks) = 0 \/ IsExc(n) THEN n
  ELSE Path(Subscript(n, Head(ks)), Tail(ks))

\* x[:-1]
SliceButLast(n) ==
  IF n.t \in {"arr", "str"}
  THEN [t |-> n.t, v |-> SubSeq(n.v, 1, Len(n.v) - 1)]
  ELSE Exc("TypeError")

\* x[-w:]
SliceLast(n, w) ==
  IF IsExc(n) THEN n
  ELSE IF n.t \in {"arr", "str"}
  THEN [t |-> n.t,
        v |-> IF Len(n.v) <= w THEN n.v
              ELSE SubSeq(n.v, Len(n.v) - w + 1, Len(n.v))]
  ELSE Exc("TypeError")

RECURSIVE SetToSeq(_)
SetToSeq(S) ==
  IF S = {} THEN <<>>
  ELSE LET x == CHOOSE y \in S : TRUE IN <<x>> \o SetToSeq(S \ {x})

\* the values a Python for loop takes over x; iterating a dict gives its
\* keys, iterating a str its characters, anything else is not iterable
Iter(n) ==
  CASE n.t = "arr" -> n.v
    [] n.t = "str" -> [i \in 1..Len(n.v) |-> Str(<<n.v[i]>>)]
    [] n.t = "obj" -> LET ks == SetToSeq(DOMAIN n.v)
                      IN  [i \in 1..Len(ks) |-> Str(<<ks[i]>>)]
    [] OTHER -> <<>>
Iterable(n) == n.t \in {"arr", "str", "obj"}

\* f"{x}" of a str is the str itself, of None the text None
Format(n) ==
  IF n.t = "str" THEN n.v ELSE <<"N", "o", "n", "e">>

\* ------------------------------------------------------ _extract_videos
\* initial_data["contents"]["twoColumnBrowseResultsRenderer"]["tabs"][n]
\*   ["tabRenderer"]["content"]["richGridRenderer"]["contents"]
TabPath(n) ==
  <<K("contents"), K("twoColumnBrowseResultsRenderer"), K("tabs"), I(n),
    K("tabRenderer"), K("content"), K("richGridRenderer"), K("contents")>>
VideosTabPath == TabPath(1)
ShortsTabPath == TabPath(2)
VisitorDataPath ==
  <<K("responseContext"), K("webResponseContextExtensionData"),
    K("ytConfigData"), K("visitorData")>>
ContinuationItemsPath ==
  <<K("onResponseReceivedActions"), I(0),
    K("appendContinuationItemsAction"), K("continuationItems")>>
LegacyPathFirst == <<I(0), K("response")>> \o ContinuationItemsPath
LegacyPath == <<I(1), K("response")>> \o ContinuationItemsPath
CurrentPath == ContinuationItemsPath
MarkerPath ==
  <<I(-1), K("continuationItemRenderer"), K("continuationEndpoint"),
    K("continuationCommand"), K("token")>>
VideoIdPath ==
  <<K("richItemRenderer"), K("content"), K("videoRenderer"), K("videoId")>>
EntityIdPath ==
  <<K("richItemRenderer"), K("content"), K("shortsLockupViewModel"),
    K("entityId")>>
WatchPrefix == <<"/", "w", "a", "t", "c", "h", "?", "v", "=">>

\* except (KeyError, IndexError, TypeError) of the locate stage
CaughtLocateNoType == {"KeyError", "IndexError"}
CaughtLocate == {"KeyError", "IndexError", "TypeError"}
\* except (KeyError, IndexError, TypeError) of the first extraction loop
CaughtExtract == {"KeyError", "IndexError", "TypeError"}
\* except (KeyError, IndexError)
CaughtMarker == {"KeyError", "IndexError"}

\* pytube.helpers.uniqueify: order-preserving, first occurrence wins
RECURSIVE uniqueifyFrom(_, _, _)
uniqueifyFrom(duped_list, seen, result) ==
  IF Len(duped_list) = 0 THEN result
  ELSE LET item == Head(duped_list)
       IN  IF item \in seen
           THEN uniqueifyFrom(Tail(duped_list), seen, result)
           ELSE uniqueifyFrom(Tail(duped_list), seen \cup {item},
                              Append(result, item))
uniqueify(duped_list) == uniqueifyFrom(duped_list, {}, <<>>)

\* the inner try of the locate stage: tab 1, and on a caught exception tab 2
LocateInitial(initial_data) ==
  LET a == Path(initial_data, VideosTabPath)
  IN  IF ~IsExc(a) THEN [via |-> "a", videos |-> a]
      ELSE IF a.v \in CaughtLocate
           THEN [via |-> "b", videos |-> Path(initial_data, ShortsTabPath)]
           ELSE [via |-> "a", videos |-> a]

\* the two continuation-response shapes, tried when the outer try failed
LocateContinuation(initial_data) ==
  LET c == Path(initial_data, LegacyPath)
      d == Path(initial_data, CurrentPath)
  IN  IF ~IsExc(c) THEN [via |-> "c", videos |-> c, exc |-> "none"]
      ELSE IF c.v \notin CaughtLocate
           THEN [via |-> "raise", videos |-> Null, exc |-> c.v]
      ELSE IF ~IsExc(d) THEN [via |-> "d", videos |-> d, exc |-> "none"]
      ELSE IF d.v \notin CaughtLocate
           THEN [via |-> "raise", videos |-> Null, exc |-> d.v]
      ELSE [via |-> "none", videos |-> Null, exc |-> "none"]

\* Locate with the visitor data added to the stored value
LocateAppendVisitorData(initial_data, stored) ==
  LET ini == LocateInitial(initial_data)
      vd == Path(initial_data, VisitorDataPath)
      outer == IF IsExc(ini.videos) THEN ini.videos.v
               ELSE IF IsExc(vd) THEN vd.v ELSE "none"
  IN  IF outer = "none"
      THEN [via |-> ini.via, videos |-> ini.videos, exc |-> "none",
            visitor_data |-> IF stored.t = "str" /\ vd.t = "str"
                             THEN Str(stored.v \o vd.v) ELSE vd]
      ELSE IF outer \in CaughtLocate
           THEN LocateContinuation(initial_data) @@ [visitor_data |-> stored]
           ELSE [via |-> "raise", videos |-> Null, exc |-> outer,
                 visitor_data |-> stored]

\* Locate with the visitor_data assignment moved ahead of the locate attempts
LocateStoreFirst(initial_data, stored) ==
  LET ini == LocateInitial(initial_data)
      vd == Path(initial_data, VisitorDataPath)
      kept == IF IsExc(vd) THEN stored ELSE vd
      outer == IF IsExc(ini.videos) THEN ini.videos.v
               ELSE IF IsExc(vd) THEN vd.v ELSE "none"
  IN  IF outer = "none"
      THEN [via |-> ini.via, videos |-> ini.videos, exc |-> "none",
            visitor_data |-> vd]
      ELSE IF outer \in CaughtLocate
           THEN LocateContinuation(initial_data) @@ [visitor_data |-> kept]
           ELSE [via |-> "raise", videos |-> Null, exc |-> outer,
                 visitor_data |-> kept]

\* the whole locate stage with the visitor_data assignment inside the outer
\* try: [via, videos, exc, visitor_data], visitor_data being the new value
\* of self._visitor_data
Locate(initial_data, stored) ==
  LET ini == LocateInitial(initial_data)
      vd == Path(initial_data, VisitorDataPath)
      outer == IF IsExc(ini.videos) THEN ini.videos.v
               ELSE IF IsExc(vd) THEN vd.v ELSE "none"
  IN  IF outer = "none"
      THEN [via |-> ini.via, videos |-> ini.videos, exc |-> "none",
            visitor_data |-> vd]
      ELSE IF outer \in CaughtLocate
           THEN LocateContinuation(initial_data) @@ [visitor_data |-> stored]
           ELSE [via |-> "raise", videos |-> Null, exc |-> outer,
                 visitor_data |-> stored]

\* the continuation-marker stage: [exc, continuation, videos]
MarkerStageKeep(videos) ==
  LET tok == Path(videos, MarkerPath)
  IN  IF ~IsExc(tok)
      THEN [exc |-> "none", continuation |-> tok, videos |-> videos]
      ELSE IF tok.v \in CaughtMarker
           THEN [exc |-> "none", continuation |-> Null, videos |-> videos]
           ELSE [exc |-> tok.v, continuation |-> Null, videos |-> videos]
MarkerStageDrop(videos) ==
  LET tok == Path(videos, MarkerPath)
  IN  IF ~IsExc(tok)
      THEN [exc |-> "none", continuation |-> tok,
            videos |-> SliceButLast(videos)]
      ELSE IF tok.v \in CaughtMarker
           THEN [exc |-> "none", continuation |-> Null,
                 videos |-> SliceButLast(videos)]
           ELSE [exc |-> tok.v, continuation |-> Null, videos |-> videos]
MarkerStageNoToken(videos) ==
  LET tok == Path(videos, MarkerPath)
  IN  IF ~IsExc(tok)
      THEN [exc |-> "none", continuation |-> Null,
            videos |-> SliceButLast(videos)]
      ELSE IF tok.v \in CaughtMarker
           THEN [exc |-> "none", continuation |-> Null, videos |-> videos]
           ELSE [exc |-> tok.v, continuation |-> Null, videos |-> videos]
MarkerStage(videos) ==
  LET tok == Path(videos, MarkerPath)
  IN  IF ~IsExc(tok)
      THEN [exc |-> "none", continuation |-> tok,
            videos |-> SliceButLast(videos)]
      ELSE IF tok.v \in CaughtMarker
           THEN [exc |-> "none", continuation |-> Null, videos |-> videos]
           ELSE [exc |-> tok.v, continuation |-> Null, videos |-> videos]

\* "/watch?v=" and the videoId of the standard video renderer
StdUrl(x) ==
  LET id == Path(x, VideoIdPath)
  IN  IF IsExc(id) THEN id ELSE Str(WatchPrefix \o Format(id))
\* "/watch?v=" and the last 11 characters of the short-video entityId
ShortUrl(x) ==
  LET id == SliceLast(Path(x, EntityIdPath), IdLen)
  IN  IF IsExc(id) THEN id ELSE Str(WatchPrefix \o Format(id))

\* the first for loop: appends until an element raises
RECURSIVE StdLoop(_, _)
StdLoop(items, videos_url) ==
  IF Len(items) = 0 THEN [videos_url |-> videos_url, exc |-> "none"]
  ELSE LET u == StdUrl(Head(items))
       IN  IF IsExc(u) THEN [videos_url |-> videos_url, exc |-> u.v]
           ELSE StdLoop(Tail(items), Append(videos_url, u.v))
\* the second for loop, skipping the elements that raise
RECURSIVE ShortLoopSkip(_, _)
ShortLoopSkip(items, videos_url) ==
  IF Len(items) = 0 THEN [videos_url |-> videos_url, exc |-> "none"]
  ELSE LET u == ShortUrl(Head(items))
       IN  IF IsExc(u) THEN ShortLoopSkip(Tail(items), videos_url)
           ELSE ShortLoopSkip(Tail(items), Append(videos_url, u.v))
\* the second for loop, appending to what the first one left
RECURSIVE ShortLoop(_, _)
ShortLoop(items, videos_url) ==
  IF Len(items) = 0 THEN [videos_url |-> videos_url, exc |-> "none"]
  ELSE LET u == ShortUrl(Head(items))
       IN  IF IsExc(u) THEN [videos_url |-> videos_url, exc |-> u.v]
           ELSE ShortLoop(Tail(items), Append(videos_url, u.v))

\* the extraction stage: [exc, videos_url]
ExtractIds(videos) ==
  LET first == IF Iterable(videos) THEN StdLoop(Iter(videos), <<>>)
               ELSE [videos_url |-> <<>>, exc |-> "TypeError"]
  IN  IF first.exc = "none" THEN first
      ELSE IF first.exc \notin CaughtExtract THEN first
      ELSE IF Iterable(videos)
           THEN ShortLoop(Iter(videos), first.videos_url)
           ELSE [videos_url |-> first.videos_url, exc |-> "TypeError"]

\* return uniqueify(videos_url), continuation
FinishNoDedup(videos_url) == videos_url
Finish(videos_url) == uniqueify(videos_url)

\* ------------------------------------------------ _build_continuation_url
\* "X-YouTube-Client-Version" and "clientVersion"
ClientVersion == <<"2.20200720.00.02">>
\* the tuple (url, headers, data) for the request of the next page
BuildContinuationUrlNoVisitor(continuation, visitor_data, yt_api_key) ==
  <<<<"https://www.youtube.com/youtubei/v1/browse?key=", yt_api_key>>,
    ("X-YouTube-Client-Name" :> <<"1">>
       @@ "X-YouTube-Client-Version" :> ClientVersion),
    Obj([continuation |-> continuation,
         context |->
           Obj([client |->
                  Obj([clientName |-> Str(<<"WEB">>),
                       visitorData |-> Null,
                       clientVersion |-> Str(ClientVersion)])])])>>
BuildContinuationUrl(continuation, visitor_data, yt_api_key) ==
  <<<<"https://www.youtube.com/youtubei/v1/browse?key=", yt_api_key>>,
    ("X-YouTube-Client-Name" :> <<"1">>
       @@ "X-YouTube-Client-Version" :> ClientVersion),
    Obj([continuation |-> continuation,
         context |->
           Obj([client |->
                  Obj([clientName |-> Str(<<"WEB">>),
                       visitorData |-> visitor_data,
                       clientVersion |-> Str(ClientVersion)])])])>>

\* one call of _extract_videos on a parsed payload with self._visitor_data =
\* stored.  outcome is "return" or "raise"; stage is where the call ended;
\* via is the locate path taken; located is the video-list node found;
\* working is the list after the marker stage; videos_url the list before
\* uniqueify; urls and continuation the returned pair; visitor_data the
\* value of self._visitor_data afterwards.
Result(outcome, stage, exc, loc, working, videos_url, urls, continuation) ==
  [outcome |-> outcome, stage |-> stage, exc |-> exc, via |-> loc.via,
   located |-> loc.videos, working |-> working, videos_url |-> videos_url,
   urls |-> urls, continuation |-> continuation,
   visitor_data |-> loc.visitor_data]

ExtractVideos(initial_data, stored) ==
  LET loc == Locate(initial_data, stored)
  IN  IF loc.via = "raise"
      THEN Result("raise", "locate", loc.exc, loc, Null, <<>>, <<>>, Null)
      ELSE IF loc.via = "none"
      THEN Result("return", "locate", "none", loc, Null, <<>>, <<>>, Null)
      ELSE
        LET mk == MarkerStage(loc.videos)
        IN  IF mk.exc # "none"
            THEN Result("raise", "marker", mk.exc, loc, mk.videos, <<>>,
                        <<>>, Null)
            ELSE
              LET ex == ExtractIds(mk.videos)
              IN  IF ex.exc # "none"
                  THEN Result("raise", "extract", ex.exc, loc, mk.videos,
                              ex.videos_url, <<>>, Null)
                  ELSE Result("return", "extract", "none", loc, mk.videos,
                              ex.videos_url, Finish(ex.videos_url),
                              mk.continuation)

\* ------------------------------------------------------------ payloads
\* The payloads handed to _extract_videos: every combination of the states
\* of the four locate paths and of the visitor-data location, around a main
\* node M placed at the first list location in priority order.
Rep(c) == [i \in 1..IdLen |-> c]
Rich(content) == Obj([richItemRenderer |-> Obj([content |-> Obj(content)])])
Std(c) == Rich([videoRenderer |-> Obj([videoId |-> Str(Rep(c))])])
Short(e) == Rich([shortsLockupViewModel |-> Obj([entityId |-> Str(e)])])
Marker(tok) ==
  [continuationItemRenderer |->
     Obj([continuationEndpoint |->
            Obj([continuationCommand |-> Obj([token |-> Str(tok)])])])]

ElemKinds ==
  {"stdA", "stdB", "shC", "tiny", "both", "marker", "markerv", "junk", "text"}
Elem(kind) ==
  CASE kind = "stdA" -> Std("A")
    [] kind = "stdB" -> Std("B")
    [] kind = "shC" -> Short(<<"s", "-">> \o Rep("C"))
    [] kind = "tiny" -> Short(<<"e", "1">>)
    [] kind = "both" ->
         Rich([videoRenderer |-> Obj([videoId |-> Str(Rep("B"))]),
               shortsLockupViewModel |->
                 Obj([entityId |-> Str(<<"x", "-">> \o Rep("A"))])])
    [] kind = "marker" -> Obj(Marker(<<"T", "1">>))
    [] kind = "markerv" ->
         Obj(Marker(<<"T", "2">>) @@ Std("M").v)
    [] kind = "junk" -> EmptyObj
    [] kind = "text" -> Str(<<"x">>)

ListOf(kinds) == Arr([i \in 1..Len(kinds) |-> Elem(kinds[i])])
KindSeqs(lo, hi) == UNION {[1..n -> ElemKinds] : n \in lo..hi}

NonListKinds == {"null", "empty", "text", "noitems", "dict", "num"}
NonList(kind) ==
  CASE kind = "null" -> Null
    [] kind = "empty" -> Str(<<>>)
    [] kind = "text" -> Str(<<"a", "b">>)
    [] kind = "noitems" -> EmptyObj
    [] kind = "dict" -> Obj([items |-> Arr(<<>>)])
    [] kind = "num" -> Num(7)

DecoyShorts == Arr(<<Std("Y"), Obj(Marker(<<"T", "8">>))>>)
DecoyItems == Arr(<<Std("Z"), Obj(Marker(<<"T", "9">>))>>)

Tab(state, node) ==
  CASE state = "list" ->
         Obj([tabRenderer |->
                Obj([content |->
                       Obj([richGridRenderer |-> Obj([contents |-> node])])])])
    [] state = "missing" -> Obj([tabRenderer |-> Obj([title |-> Str(<<"t">>)])])
    [] OTHER -> Obj([tabRenderer |-> Obj([content |-> Null])])

Tabs(shape, M) ==
  LET home == Tab("missing", Null)
      t1 == Tab(shape.tab1, M)
      t2 == Tab(shape.tab2, IF shape.tab1 = "list" THEN DecoyShorts ELSE M)
  IN  IF shape.tab1 = "range" THEN <<home>>
      ELSE IF shape.tab2 = "range" THEN <<home, t1>>
      ELSE <<home, t1, t2>>

Actions(state, node) ==
  IF state = "list"
  THEN [onResponseReceivedActions |->
          Arr(<<Obj([appendContinuationItemsAction |->
                       Obj([continuationItems |-> node])])>>)]
  ELSE IF state = "range" THEN [onResponseReceivedActions |-> Arr(<<>>)]
  ELSE [k \in {} |-> Null]

VisitorData(state) ==
  CASE state \in {"v1", "v2"} ->
         [responseContext |->
            Obj([webResponseContextExtensionData |->
                   Obj([ytConfigData |->
                          Obj([visitorData |-> Str(<<"V", state>>)])])])]
    [] state = "wrongtype" ->
         [responseContext |->
            Obj([webResponseContextExtensionData |->
                   Obj([ytConfigData |-> Null])])]
    [] OTHER -> [k \in {} |-> Null]

BrowseShapes ==
  [top : {"browse"}, tab1 : {"list", "missing", "wrongtype", "range"},
   tab2 : {"list", "missing", "range"}, cur : {"list", "missing", "range"},
   vd : {"v1", "v2", "missing", "wrongtype"}]
ResponseShapes ==
  [top : {"response"}, tab1 : {"missing"}, tab2 : {"missing"},
   cur : {"list", "missing", "range"}, vd : {"v1", "missing"}]
OtherShapes ==
  [top : {"legacy", "array1", "array2", "arraytext", "text", "num", "null"},
   tab1 : {"missing"}, tab2 : {"missing"}, cur : {"list", "missing"},
   vd : {"missing"}]
Shapes == BrowseShapes \cup ResponseShapes \cup OtherShapes

HasTabList(shape) ==
  shape.top = "browse"
  /\ (shape.tab1 = "list"
      \/ (shape.tab1 \in {"missing", "wrongtype"} /\ shape.tab2 = "list"))

Payload(shape, M) ==
  LET items == Actions(shape.cur, IF HasTabList(shape) THEN DecoyItems ELSE M)
      vd == VisitorData(shape.vd)
  IN  CASE shape.top = "browse" ->
             Obj([contents |->
                    Obj([twoColumnBrowseResultsRenderer |->
                           Obj([tabs |-> Arr(Tabs(shape, M))])])]
                 @@ items @@ vd)
        [] shape.top = "response" -> Obj(items @@ vd)
        [] shape.top = "legacy" ->
             Arr(<<EmptyObj, Obj([response |-> Obj(items)])>>)
        [] shape.top = "array1" -> Arr(<<Obj(items)>>)
        [] shape.top = "array2" -> Arr(<<EmptyObj, Obj(items)>>)
        [] shape.top = "arraytext" -> Arr(<<EmptyObj, Str(<<"a", "b">>)>>)
        [] shape.top = "text" -> Str(<<"a", "b">>)
        [] shape.top = "num" -> Num(7)
        [] OTHER -> Null

\* the shapes swept with every list up to MaxLen
ListShapes ==
  {s \in Shapes :
     \/ s.top = "browse" /\ s.tab1 = "list" /\ s.tab2 = "list"
        /\ s.cur \in {"list", "missing"} /\ s.vd \in {"v1", "missing"}
     \/ s.top = "browse" /\ s.tab1 = "missing" /\ s.tab2 = "list"
        /\ s.cur = "missing" /\ s.vd = "v2"
     \/ s.top \in {"legacy", "response"} /\ s.cur = "list"
        /\ s.vd = "missing"}

\* ------------------------------------------------------------- the state
\* Channel.__init__: the sub-page URLs are channel_url plus a suffix
channel_uri == "/c/channel"
channel_url == <<"https://www.youtube.com", channel_uri>>
videos_url == channel_url \o <<"/videos">>
shorts_url == channel_url \o <<"/shorts">>
playlists_url == channel_url \o <<"/playlists">>
community_url == channel_url \o <<"/community">>
featured_channels_url == channel_url \o <<"/channels">>
about_url == channel_url \o <<"/about">>
PageUrls ==
  {videos_url, shorts_url, playlists_url, community_url,
   featured_channels_url, about_url}

VARIABLES
  pc,             \* "idle", or "done" right after a call of _extract_videos,
                  \* "twice" after a second call on the same payload,
                  \* "built" after a call of _build_continuation_url
  payload,        \* the parsed payload of that call
  prior,          \* self._visitor_data when that call began
  last,           \* what that call did (see ExtractVideos)
  again,          \* what the second call on the same payload did
  built,          \* the arguments and the result of _build_continuation_url
  _visitor_data,  \* self._visitor_data
  _html,                    \* the page-body cache slots, None until fetched
  _playlists_html,
  _community_html,
  _featured_channels_html,
  _about_html,
  _html_page,     \* the URL the html property fetches
  html_from,      \* the URL the body in _html was fetched from
  fetched,        \* the request.get calls made so far, per URL
  seqs,           \* the sequences handed out by videos and shorts
  log             \* for each sequence, the page it classified last

classVars == <<pc, payload, prior, last, again, built>>
pageVars ==
  <<_html, _playlists_html, _community_html, _featured_channels_html,
    _about_html, _html_page, html_from, fetched, seqs, log>>
vars == <<classVars, _visitor_data, pageVars>>

NoResult ==
  Result("none", "none", "none",
         [via |-> "none", videos |-> Null, visitor_data |-> Null],
         Null, <<>>, <<>>, Null)

NoBuilt == [continuation |-> Null, yt_api_key |-> "", result |-> <<>>]

\* self.yt_api_key, taken from the page by the Playlist base class
ApiKeys == {"key1", "key2"}

Init ==
  /\ pc = "idle"
  /\ payload = Null
  /\ prior = Null
  /\ last = NoResult
  /\ again = NoResult
  /\ built = NoBuilt
  /\ _visitor_data = Null
  /\ _html = Null
  /\ _playlists_html = Null
  /\ _community_html = Null
  /\ _featured_channels_html = Null
  /\ _about_html = Null
  /\ _html_page = videos_url
  /\ html_from = <<>>
  /\ fetched = [u \in PageUrls |-> 0]
  /\ seqs = <<>>
  /\ log = <<>>

\* self._extract_videos(raw_json) with json.loads(raw_json) = p
Call(p) ==
  /\ pc = "idle"
  /\ pc' = "done"
  /\ payload' = p
  /\ prior' = _visitor_data
  /\ last' = ExtractVideos(p, _visitor_data)
  /\ _visitor_data' = last'.visitor_data
  /\ UNCHANGED <<again, built, pageVars>>

\* a payload of any shape around a short list or a node that is no list
CallShape ==
  /\ pc = "idle"
  /\ \E shape \in Shapes :
       \/ \E ks \in KindSeqs(0, 1) : Call(Payload(shape, ListOf(ks)))
       \/ \E k \in NonListKinds : Call(Payload(shape, NonList(k)))

\* a payload of one of the list shapes around any list up to MaxLen
CallList ==
  /\ pc = "idle"
  /\ \E shape \in ListShapes, ks \in KindSeqs(2, MaxLen) :
       Call(Payload(shape, ListOf(ks)))

\* self._extract_videos(raw_json) once more on the same raw_json
CallAgain ==
  /\ pc = "done"
  /\ pc' = "twice"
  /\ again' = ExtractVideos(payload, _visitor_data)
  /\ _visitor_data' = again'.visitor_data
  /\ UNCHANGED <<payload, prior, last, built, pageVars>>

\* self._build_continuation_url(continuation) after a classification, with
\* the token it returned when it returned one
BuildUrl ==
  /\ pc = "done"
  /\ pc' = "built"
  /\ \E key \in ApiKeys :
       LET continuation == IF last.continuation.t = "str"
                           THEN last.continuation ELSE Str(<<"T", "0">>)
       IN  built' = [continuation |-> continuation, yt_api_key |-> key,
                     result |-> BuildContinuationUrl(continuation,
                                                     _visitor_data, key)]
  /\ UNCHANGED <<payload, prior, last, again, _visitor_data, pageVars>>

\* the caller is done with the returned pair (or the exception)
Forget ==
  /\ pc \in {"done", "twice", "built"}
  /\ pc' = "idle"
  /\ payload' = Null
  /\ prior' = Null
  /\ last' = NoResult
  /\ again' = NoResult
  /\ built' = NoBuilt
  /\ UNCHANGED <<_visitor_data, pageVars>>

Next == CallShape \/ CallList \/ CallAgain \/ BuildUrl \/ Forget

Spec == Init /\ [][Next]_vars

\* --------------------------------------------- page bodies and sequences
\* the request.get calls made so far
Fetches ==
  fetched[videos_url] + fetched[shorts_url] + fetched[playlists_url]
  + fetched[community_url] + fetched[featured_channels_url]
  + fetched[about_url]

\* Python truthiness of a cache slot: None and the empty string are false
Truthy(x) == ~(x.t = "null" \/ (x.t = "str" /\ Len(x.v) = 0))

\* what request.get(url) can return: the page at url (its text stands for
\* the URL it was served from) or an empty body
Bodies(url) == {Str(url), Str(<<>>)}

\* the html property: [hit, body]; on a miss the body is fetched from
\* self._html_page and stored in self._html
HtmlRead(body) ==
  /\ Fetches < MaxFetch
  /\ body \in Bodies(_html_page)
  /\ _html' = body
  /\ html_from' = _html_page
  /\ fetched' = [fetched EXCEPT ![_html_page] = @ + 1]

\* a caller reads channel.html
html ==
  /\ IF Truthy(_html)
     THEN UNCHANGED <<_html, html_from, fetched>>
     ELSE \E body \in Bodies(_html_page) : HtmlRead(body)
  /\ UNCHANGED <<classVars, log, _visitor_data, _playlists_html, _community_html,
                 _featured_channels_html, _about_html, _html_page, seqs>>

\* a caller reads channel.playlists_html
playlists_html ==
  /\ IF Truthy(_playlists_html)
     THEN UNCHANGED <<_playlists_html, fetched>>
     ELSE /\ Fetches < MaxFetch
          /\ _playlists_html' \in Bodies(playlists_url)
          /\ fetched' = [fetched EXCEPT ![playlists_url] = @ + 1]
  /\ UNCHANGED <<classVars, log, _visitor_data, _html, _community_html,
                 _featured_channels_html, _about_html, _html_page, html_from,
                 seqs>>

\* a caller reads channel.community_html
community_html ==
  /\ IF Truthy(_community_html)
     THEN UNCHANGED <<_community_html, fetched>>
     ELSE /\ Fetches < MaxFetch
          /\ _community_html' \in Bodies(community_url)
          /\ fetched' = [fetched EXCEPT ![community_url] = @ + 1]
  /\ UNCHANGED <<classVars, log, _visitor_data, _html, _playlists_html,
                 _featured_channels_html, _about_html, _html_page, html_from,
                 seqs>>

\* a caller reads channel.featured_channels_html
featured_channels_html ==
  /\ IF Truthy(_featured_channels_html)
     THEN UNCHANGED <<_featured_channels_html, fetched>>
     ELSE /\ Fetches < MaxFetch
          /\ _featured_channels_html' \in Bodies(featured_channels_url)
          /\ fetched' = [fetched EXCEPT ![featured_channels_url] = @ + 1]
  /\ UNCHANGED <<classVars, log, _visitor_data, _html, _playlists_html,
                 _community_html, _about_html, _html_page, html_from, seqs>>

\* a caller reads channel.about_html
about_html ==
  /\ IF Truthy(_about_html)
     THEN UNCHANGED <<_about_html, fetched>>
     ELSE /\ Fetches < MaxFetch
          /\ _about_html' \in Bodies(about_url)
          /\ fetched' = [fetched EXCEPT ![about_url] = @ + 1]
  /\ UNCHANGED <<classVars, log, _visitor_data, _html, _playlists_html,
                 _community_html, _featured_channels_html, _html_page,
                 html_from, seqs>>

\* a sequence not yet consumed: DeferredGeneratorList(self.videos_generator())
NewSeq(kind) ==
  [kind |-> kind, state |-> "new", first_url |-> <<>>, urls |-> <<>>,
   continuation |-> Null]

\* the videos property
\* nothing classified yet for a sequence
NoEntry == [post |-> FALSE, sent |-> Null, page |-> Null, outcome |-> "none"]

videos ==
  /\ Len(seqs) < MaxSeqs
  /\ _html_page' = videos_url
  /\ seqs' = Append(seqs, NewSeq("videos"))
  /\ log' = Append(log, NoEntry)
  /\ UNCHANGED <<classVars, _visitor_data, _html, _playlists_html,
                 _community_html, _featured_channels_html, _about_html,
                 html_from, fetched>>

\* the shorts property
shorts ==
  /\ Len(seqs) < MaxSeqs
  /\ _html_page' = shorts_url
  /\ seqs' = Append(seqs, NewSeq("shorts"))
  /\ log' = Append(log, NoEntry)
  /\ UNCHANGED <<classVars, _visitor_data, _html, _playlists_html,
                 _community_html, _featured_channels_html, _about_html,
                 html_from, fetched>>

\* the initial data embedded in the page served from url
PageData(url) ==
  IF url = shorts_url
  THEN Payload([top |-> "browse", tab1 |-> "missing", tab2 |-> "list",
                cur |-> "missing", vd |-> "v2"],
               ListOf(<<"shC", "tiny">>))
  ELSE Payload([top |-> "browse", tab1 |-> "list", tab2 |-> "missing",
                cur |-> "missing", vd |-> "v1"],
               ListOf(<<"stdA", "stdB", "marker">>))

\* the first demand on sequence i: the generator reads self.html, takes the
\* initial data out of the body and classifies it; an empty body has no
\* initial data and the demand fails
FirstDemand(i) ==
  /\ i \in 1..Len(seqs)
  /\ seqs[i].state = "new"
  /\ IF Truthy(_html)
     THEN UNCHANGED <<_html, html_from, fetched>>
     ELSE \E body \in Bodies(_html_page) : HtmlRead(body)
  /\ IF Truthy(_html')
     THEN \E page \in {PageData(html_from')} :
          \E r \in {ExtractVideos(page, _visitor_data)} :
              /\ _visitor_data' = r.visitor_data
              /\ log' = [log EXCEPT ![i] =
                            [post |-> FALSE, sent |-> Null,
                             page |-> page,
                             outcome |-> r.outcome]]
              /\ seqs' = [seqs EXCEPT ![i] =
                            [kind |-> @.kind,
                             state |-> IF r.outcome = "return"
                                       THEN "started" ELSE "failed",
                             first_url |-> html_from',
                             urls |-> r.urls,
                             continuation |-> r.continuation]]
     ELSE /\ seqs' = [seqs EXCEPT ![i].state = "failed",
                                  ![i].first_url = html_from']
          /\ UNCHANGED <<_visitor_data, log>>
  /\ UNCHANGED <<classVars, _playlists_html, _community_html,
                 _featured_channels_html, _about_html, _html_page>>

NextPages ==
  \/ html \/ playlists_html \/ community_html \/ featured_channels_html
  \/ about_html \/ videos \/ shorts
  \/ \E i \in 1..MaxSeqs : FirstDemand(i)

SpecPages == Init /\ [][NextPages]_vars

\* ------------------------------------------------- the pagination driver
\* what request.post can return for a continuation request: a further page
\* with a marker, a further page in the legacy form, a last page, a page
\* whose element has no renderer shape, an object of no known shape
ContinuationPages ==
  {Payload([top |-> "response", tab1 |-> "missing", tab2 |-> "missing",
            cur |-> "list", vd |-> "missing"], ListOf(ks)) :
     ks \in {<<"stdA", "marker">>, <<"stdB">>, <<"junk">>}}
  \cup {Payload([top |-> "legacy", tab1 |-> "missing", tab2 |-> "missing",
                 cur |-> "list", vd |-> "missing"],
                ListOf(<<"shC", "markerv">>)),
        EmptyObj}

\* a later demand on sequence i while a continuation token is held: build
\* the request, post it, classify the response
NextDemand(i) ==
  /\ i \in 1..Len(seqs)
  /\ seqs[i].state = "started"
  /\ seqs[i].continuation.t # "null"
  /\ \E key \in ApiKeys, page \in ContinuationPages :
       \E req \in {BuildContinuationUrl(seqs[i].continuation, _visitor_data,
                                        key)},
          r \in {ExtractVideos(page, _visitor_data)} :
           /\ _visitor_data' = r.visitor_data
           /\ seqs' = [seqs EXCEPT ![i].state = IF r.outcome = "return"
                                                THEN "started" ELSE "failed",
                                   ![i].urls = r.urls,
                                   ![i].continuation = r.continuation]
           /\ log' = [log EXCEPT ![i] =
                         [post |-> TRUE,
                          sent |-> Path(req[3], <<K("continuation")>>),
                          page |-> page, outcome |-> r.outcome]]
  /\ UNCHANGED <<classVars, _html, _playlists_html, _community_html,
                 _featured_channels_html, _about_html, _html_page, html_from,
                 fetched>>

\* a later demand on sequence i while no token is held: the sequence ends
Exhaust(i) ==
  /\ i \in 1..Len(seqs)
  /\ seqs[i].state = "started"
  /\ seqs[i].continuation.t = "null"
  /\ seqs' = [seqs EXCEPT ![i].state = "exhausted"]
  /\ UNCHANGED <<classVars, log, _visitor_data, _html, _playlists_html,
                 _community_html, _featured_channels_html, _about_html,
                 _html_page, html_from, fetched>>

NextDriver ==
  \/ videos \/ shorts
  \/ \E i \in 1..MaxSeqs : FirstDemand(i)
  \/ \E i \in 1..MaxSeqs : NextDemand(i)
  \/ \E i \in 1..MaxSeqs : Exhaust(i)

SpecDriver == Init /\ [][NextDriver]_vars

\* ------------------------------------------------ claims on the classifier
Range(s) == {s[i] : i \in 1..Len(s)}
Matches(p, path) == ~IsExc(Path(p, path))
Returned == pc = "done" /\ last.outcome = "return"
LocatedList == pc = "done" /\ last.via \in {"a", "b", "c", "d"}
               /\ last.located.t = "arr"
HasMarker == LocatedList /\ Matches(last.located, MarkerPath)
\* the watch paths an element can give, by either renderer shape
UrlsOf(x) == {u.v : u \in {w \in {StdUrl(x), ShortUrl(x)} : ~IsExc(w)}}
IsVideo(x) == UrlsOf(x) # {}
Front(s) == SubSeq(s, 1, Len(s) - 1)
FirstIdx(s, x) == CHOOSE i \in 1..Len(s) : s[i] = x /\ \A j \in 1..(i - 1) : s[j] # x

\* C1: when the located list ends in a continuation marker, the returned
\* token is the marker's token and every returned watch path comes from an
\* element before the last one.
C1_MarkerTokenAndExclusion ==
  (HasMarker /\ Returned) =>
     /\ NodeEq(last.continuation, Path(last.located, MarkerPath))
     /\ \A u \in Range(last.urls) :
          \E x \in Range(Front(last.located.v)) : u \in UrlsOf(x)
C1_Witness ==
  /\ HasMarker /\ Returned
  /\ Len(last.located.v) = 3
  /\ IsVideo(last.located.v[3])
  /\ Len(last.urls) = 2

\* C2: a payload matching none of the four locate shapes gives the empty
\* list and no token, and the call returns.
MatchesNoShape(p) ==
  /\ ~Matches(p, VideosTabPath) /\ ~Matches(p, ShortsTabPath)
  /\ ~Matches(p, LegacyPath) /\ ~Matches(p, CurrentPath)
C2_NoShapeGivesEmpty ==
  (pc = "done" /\ MatchesNoShape(payload)) =>
     /\ last.outcome = "return"
     /\ Len(last.urls) = 0
     /\ last.continuation.t = "null"
C2_Witness ==
  /\ pc = "done" /\ payload.t = "obj" /\ DOMAIN payload.v = {}
  /\ last.outcome = "return" /\ Len(last.urls) = 0

\* C5: the returned list has no duplicates and keeps the first-seen order
\* of the identifiers extracted in element order.
NoDup(s) == \A i, j \in 1..Len(s) : s[i] = s[j] => i = j
FirstSeenOf(urls, all) ==
  /\ NoDup(urls)
  /\ Range(urls) = Range(all)
  /\ \A i, j \in 1..Len(urls) :
       i < j => FirstIdx(all, urls[i]) < FirstIdx(all, urls[j])
C5_UniqueFirstSeen ==
  Returned =>
     /\ FirstSeenOf(last.urls, last.videos_url)
     /\ (last.working.t = "arr" /\ \A x \in Range(last.working.v) :
                                      ~IsExc(StdUrl(x)))
          => last.videos_url =
               [i \in 1..Len(last.working.v) |-> StdUrl(last.working.v[i]).v]
     /\ (last.working.t = "arr" /\ Len(last.working.v) > 0
           /\ IsExc(StdUrl(last.working.v[1])))
          => last.videos_url =
               [i \in 1..Len(last.working.v) |-> ShortUrl(last.working.v[i]).v]
C5_Witness ==
  /\ Returned
  /\ Len(last.videos_url) = 3
  /\ Len(last.urls) = 2
  /\ last.videos_url[1] = last.videos_url[3]

\* C8: when the located list is not empty and ends in a video element that
\* is no marker, no token is returned and every element, the last one
\* included, has a watch path in the result.
C8_NoMarkerKeepsAll ==
  (LocatedList /\ Returned /\ Len(last.located.v) > 0
     /\ ~Matches(last.located, MarkerPath)
     /\ IsVideo(last.located.v[Len(last.located.v)])) =>
     /\ last.continuation.t = "null"
     /\ \A x \in Range(last.located.v) :
          UrlsOf(x) \cap Range(last.urls) # {}
C8_Witness ==
  /\ LocatedList /\ Returned
  /\ Len(last.located.v) = 3
  /\ ~Matches(last.located, MarkerPath)
  /\ Len(last.urls) = 3

\* C10: the stored visitor_data becomes the payload's value when the list is
\* located by an initial-page path and the payload carries visitor data, and
\* is left as it was in every other case.
StoresVisitorData(p) ==
  /\ Matches(p, VideosTabPath) \/ Matches(p, ShortsTabPath)
  /\ Matches(p, VisitorDataPath)
C10_VisitorDataFrame ==
  pc = "done" =>
     NodeEq(_visitor_data,
            IF StoresVisitorData(payload)
            THEN Path(payload, VisitorDataPath) ELSE prior)
C10_Witness ==
  /\ pc = "done" /\ last.via \in {"a", "b"}
  /\ prior.t = "str" /\ _visitor_data.t = "str"
  /\ prior.v # _visitor_data.v

\* C3: no structural mismatch at the locate stage or at the marker stage
\* surfaces as an exception; a last element that is no marker gives no
\* token and keeps the full list.
C3_MismatchNeverRaises ==
  pc = "done" =>
     /\ last.outcome = "raise" => last.stage = "extract"
     /\ (LocatedList /\ ~Matches(last.located, MarkerPath)) =>
          /\ last.continuation.t = "null"
          /\ NodeEq(last.working, last.located)

\* C4: a list located by an initial-page path is the list the result is
\* computed from, also when the payload carries no visitor data.
InitialList(p) ==
  IF Matches(p, VideosTabPath) THEN Path(p, VideosTabPath)
  ELSE Path(p, ShortsTabPath)
C4_MissingVisitorDataKeepsList ==
  (pc = "done" /\ ~IsExc(InitialList(payload))
     /\ ~Matches(payload, VisitorDataPath)) =>
     /\ last.via \in {"a", "b"}
     /\ NodeEq(last.located, InitialList(payload))

\* C9: the locate paths are taken in priority order: tab 1 whenever it
\* matches, tab 2 exactly when tab 1 fails and tab 2 matches, a
\* continuation shape only when neither tab matches.
C9_LocatePriority ==
  pc = "done" =>
     /\ Matches(payload, VideosTabPath) => last.via = "a"
     /\ last.via = "b" <=>
          (~Matches(payload, VideosTabPath) /\ Matches(payload, ShortsTabPath))
     /\ last.via \in {"c", "d"} =>
          (~Matches(payload, VideosTabPath) /\ ~Matches(payload, ShortsTabPath))

\* ---------------------------------------------------- claims on the pages
\* C6: the first page of a sequence from shorts is fetched from shorts_url
\* and the first page of a sequence from videos from videos_url, whatever
\* the order of the property reads and the first demands.
C6_FirstPageFollowsProperty ==
  \A i \in 1..Len(seqs) :
    seqs[i].state # "new" =>
      seqs[i].first_url =
        (IF seqs[i].kind = "shorts" THEN shorts_url ELSE videos_url)

\* C7: every cache slot is written at most once, so no URL is requested
\* twice, whatever body the first fetch returned.
C7_SlotWrittenOnce ==
  /\ fetched[videos_url] + fetched[shorts_url] <= 1
  /\ \A u \in PageUrls : fetched[u] <= 1

\* ------------------------------------- more claims on the classifier
\* the returned pair, or the exception, of two calls agree
SamePair(r1, r2) ==
  /\ r1.outcome = r2.outcome
  /\ r1.exc = r2.exc
  /\ r1.urls = r2.urls
  /\ NodeEq(r1.continuation, r2.continuation)

\* C12: a legacy continuation response (two-element array, the items under
\* [1].response) and the current one (object) holding the same items
\* classify to the same result.
ResponseItemsPath == <<K("response")>> \o ContinuationItemsPath
IsLegacyResponse(p) ==
  p.t = "arr" /\ Len(p.v) = 2 /\ Matches(p.v[2], ResponseItemsPath)
CurrentOf(p) == Obj(Actions("list", Path(p.v[2], ResponseItemsPath)))
C12_LegacyEqualsCurrent ==
  (pc = "done" /\ IsLegacyResponse(payload)) =>
     SamePair(last, ExtractVideos(CurrentOf(payload), prior))
C12_Witness ==
  /\ pc = "done" /\ IsLegacyResponse(payload) /\ Returned
  /\ Len(last.urls) = 2
  /\ last.continuation.t = "str"

\* C13: a second call on the same payload returns what the first returned
\* and leaves the stored visitor_data as the first call left it.
C13_Idempotent ==
  pc = "twice" =>
     /\ SamePair(last, again)
     /\ NodeEq(_visitor_data, last.visitor_data)
C13_Witness ==
  /\ pc = "twice" /\ again.outcome = "return"
  /\ prior.t = "str" /\ _visitor_data.t = "str"
  /\ prior.v # _visitor_data.v
  /\ Len(again.urls) = 2

\* C14: one renderer shape serves the whole batch and every element gives
\* at most one identifier, so the result is no longer than the working list.
AllOfShape(urls, elems, std) ==
  \A u \in Range(urls) :
    \E x \in Range(elems) :
      LET w == IF std THEN StdUrl(x) ELSE ShortUrl(x)
      IN  ~IsExc(w) /\ u = w.v
C14_BatchLevelShape ==
  (Returned /\ last.working.t = "arr") =>
     /\ Len(last.urls) <= Len(last.working.v)
     /\ \/ AllOfShape(last.urls, last.working.v, TRUE)
        \/ AllOfShape(last.urls, last.working.v, FALSE)

\* C15: when the standard attempt fails on the batch and some element has
\* no short-video shape, the call raises from the extraction stage.
C15_MixedBatchRaises ==
  (pc = "done" /\ last.stage = "extract" /\ last.working.t = "arr"
     /\ (\E x \in Range(last.working.v) : IsExc(StdUrl(x)))
     /\ (\E y \in Range(last.working.v) : IsExc(ShortUrl(y)))) =>
     /\ last.outcome = "raise"
     /\ Len(last.urls) = 0
C15_Witness ==
  /\ pc = "done" /\ last.stage = "extract" /\ last.outcome = "raise"
  /\ last.working.t = "arr" /\ Len(last.working.v) = 2
  /\ ~IsExc(StdUrl(last.working.v[1])) /\ IsExc(ShortUrl(last.working.v[1]))
  /\ IsExc(StdUrl(last.working.v[2])) /\ ~IsExc(ShortUrl(last.working.v[2]))

\* C16: the request built carries the given token, the visitor_data stored
\* by the latest classification that stored one (None if none did) and the
\* api key, and building it changes no Channel state.
StoredAfterCall ==
  IF StoresVisitorData(payload) THEN Path(payload, VisitorDataPath) ELSE prior
BuiltRequestOk ==
  pc = "built" =>
     /\ built.result[1]
          = <<"https://www.youtube.com/youtubei/v1/browse?key=",
              built.yt_api_key>>
     /\ NodeEq(Path(built.result[3], <<K("continuation")>>),
               built.continuation)
     /\ NodeEq(Path(built.result[3],
                    <<K("context"), K("client"), K("visitorData")>>),
               StoredAfterCall)
     /\ NodeEq(_visitor_data, StoredAfterCall)
C16_BuiltRequest ==
  /\ []BuiltRequestOk
  /\ [][pc' = "built" => UNCHANGED <<_visitor_data, pageVars>>]_vars
C16_Witness ==
  /\ pc = "built" /\ last.continuation.t = "str"
  /\ NodeEq(built.continuation, last.continuation)
  /\ prior.t = "str" /\ _visitor_data.t = "str"
  /\ prior.v # _visitor_data.v
  /\ built.yt_api_key = "key2"

\* ------------------------------------------------- claims on the driver
\* the video list of a page, by the first of the four paths that resolves
ListOfPage(p) ==
  IF Matches(p, VideosTabPath) THEN Path(p, VideosTabPath)
  ELSE IF Matches(p, ShortsTabPath) THEN Path(p, ShortsTabPath)
  ELSE IF IsLegacyResponse(p) THEN Path(p.v[2], ResponseItemsPath)
  ELSE Path(p, ContinuationItemsPath)
\* the classification of the page of log entry e produced a token
Produced(e) ==
  e.outcome = "return" /\ \E l \in {ListOfPage(e.page)} : Matches(l, MarkerPath)
Pending(i) == seqs[i].state = "started" /\ seqs[i].continuation.t # "null"
Classified(i) == log[i].outcome # "none"
PendingIffProduced ==
  \A i \in 1..Len(seqs) :
    /\ Len(log) = Len(seqs)
    /\ seqs[i].state = "new" => ~Classified(i)
    /\ Classified(i) => (Pending(i) <=> Produced(log[i]))
    /\ seqs[i].state = "exhausted" => (Classified(i) /\ ~Produced(log[i]))
    /\ log[i].post <=> log[i].sent.t # "null"
PageOnlyByRequest ==
  \A i \in 1..Len(seqs) :
    log'[i] # log[i] =>
      IF Classified(i)
      THEN /\ Pending(i)
           /\ log'[i].post
           /\ \E l \in {ListOfPage(log[i].page)} :
                NodeEq(log'[i].sent, Path(l, MarkerPath))
      ELSE ~log'[i].post

\* C11: a sequence holds a token exactly when the page it classified last
\* produced one; every later page comes from one continuation request
\* carrying that token; a sequence whose last page produced no token is
\* exhausted and gets no further page.
C11_RequestPerToken == []PendingIffProduced /\ [][PageOnlyByRequest]_vars
C11_Witness ==
  /\ Len(seqs) > 0
  /\ seqs[1].state = "exhausted"
  /\ log[1].post
  /\ NodeEq(log[1].sent, Str(<<"T", "2">>))
  /\ Len(seqs[1].urls) = 1

====
